---- MODULE Spec2Model ----
(***************************************************************************)
(* TimeCols (packages/timegrid/src/TimeCols.tsx): the time-grid component  *)
(* that maps times of day to pixel offsets and pointer positions to time   *)
(* cells.                                                                  *)
(*                                                                         *)
(* Numbers.  Durations and date markers are integers (milliseconds in the  *)
(* source).  Pixel values that the source computes in floating point are   *)
(* kept as exact fractions [n |-> numerator, d |-> denominator] with d > 0.*)
(* Indices returned by the lookups are 0-based as in the source; TLA+      *)
(* sequences are 1-based, so tops[i + 1] is the source's tops[i].          *)
(***************************************************************************)
EXTENDS Integers, Sequences, FiniteSets, TLC

\* ---------------------------------------------------------------- bounds
MaxSlats == 2        \* most slat rows in the grid
MaxHeight == 2       \* tallest slat, in pixels
MaxCols == 2         \* most day columns
MaxWidth == 1        \* widest column, in pixels
MaxSlot == 3         \* longest configured slotDuration
MaxMinTime == 1      \* latest dateProfile.minTime
MaxMinHeight == 1    \* largest options.timeGridEventMinHeight
MaxPasses == 3       \* most mount/update/resize notifications in a run
DayMs == 24          \* distance between the dates of neighbouring cells

VARIABLES
  options,        \* context.options: slotDuration, snapDuration, timeGridEventMinHeight
  props,          \* this.props: allowSizing, minTime (dateProfile.minTime), cells (dates)
  slotDuration,   \* this.slotDuration
  snapDuration,   \* this.snapDuration
  snapsPerSlot,   \* this.snapsPerSlot
  colEls,         \* this.colEls, with the live geometry of the elements
  slatEls,        \* this.slatEls, with the live geometry of the elements
  colPositions,   \* this.colPositions
  slatPositions,  \* this.slatPositions
  segRenderers,   \* this.segRenderers: TRUE where the entry is non-null
  phase,          \* where the component is in its lifecycle
  resizeHandler,  \* whether handleSizing is registered with the context
  passes,         \* number of handleSizing passes run so far
  events,         \* number of mount/update/resize notifications delivered to a live component
  passLog,        \* the steps of the latest handleSizing pass, in order
  result          \* the latest query and what it returned

vars == <<options, props, slotDuration, snapDuration, snapsPerSlot, colEls, slatEls,
          colPositions, slatPositions, segRenderers, phase, resizeHandler, passes,
          events, passLog, result>>

Null == 0 - 1

Max(a, b) == IF a >= b THEN a ELSE b

Min(a, b) == IF a <= b THEN a ELSE b

\* Math.floor(n / d) for d > 0
Floor(n, d) == n \div d

\* a list of sibling elements: the first one's offset from the parent's edge,
\* and each one's size along the measured axis
Els(lead, sizes) == [lead |-> lead, sizes |-> sizes]

NoEls == Els(0, <<>>)

RECURSIVE SumTo(_, _)
SumTo(sizes, k) == IF k = 0 THEN 0 ELSE SumTo(sizes, k - 1) + sizes[k]

\* ------------------------------------------------- PositionCache (core)
NoCache ==
  [st |-> "none", isHorizontal |-> FALSE, isVertical |-> FALSE,
   lefts |-> <<>>, rights |-> <<>>, tops |-> <<>>, bottoms |-> <<>>, stamp |-> 0]

\* new PositionCache(originEl, els, isHorizontal, isVertical): nothing measured yet
PositionCache(els, isHorizontal, isVertical) ==
  [st |-> "new", isHorizontal |-> isHorizontal, isVertical |-> isVertical,
   lefts |-> <<>>, rights |-> <<>>, tops |-> <<>>, bottoms |-> <<>>, stamp |-> 0]

ElStarts(els) == [i \in 1..Len(els.sizes) |-> els.lead + SumTo(els.sizes, i - 1)]

ElEnds(els) == [i \in 1..Len(els.sizes) |-> els.lead + SumTo(els.sizes, i)]

ZerosOf(els) == [i \in 1..Len(els.sizes) |-> 0]

\* build(): reads the live geometry of every element; stamp names the sizing pass
build(cache, els, stamp) ==
  [cache EXCEPT !.st = "built", !.stamp = stamp,
     !.lefts = IF cache.isHorizontal THEN ElStarts(els) ELSE <<>>,
     !.rights = IF cache.isHorizontal THEN ElEnds(els) ELSE <<>>,
     !.tops = IF cache.isVertical THEN ElStarts(els) ELSE <<>>,
     !.bottoms = IF cache.isVertical THEN ElEnds(els) ELSE <<>>]

\* buildZeros(): the same shapes with every offset and extent 0
buildZeros(cache, els, stamp) ==
  [cache EXCEPT !.st = "built", !.stamp = stamp,
     !.lefts = IF cache.isHorizontal THEN ZerosOf(els) ELSE <<>>,
     !.rights = IF cache.isHorizontal THEN ZerosOf(els) ELSE <<>>,
     !.tops = IF cache.isVertical THEN ZerosOf(els) ELSE <<>>,
     !.bottoms = IF cache.isVertical THEN ZerosOf(els) ELSE <<>>]

\* a read of a cache that was never built is a precondition error
Unmeasured(cache) == cache.st # "built"

\* leftToIndex(leftPosition): the first column whose [left, right) holds the position
leftToIndex(cache, leftPosition) ==
  LET found == {i \in 1..Len(cache.lefts) :
                  leftPosition >= cache.lefts[i] /\ leftPosition < cache.rights[i]}
  IN IF found = {} THEN Null
     ELSE (CHOOSE i \in found : \A j \in found : i <= j) - 1

\* topToIndex(topPosition): the first slat whose [top, bottom) holds the position
topToIndex(cache, topPosition) ==
  LET found == {i \in 1..Len(cache.tops) :
                  /\ topPosition.n >= cache.tops[i] * topPosition.d
                  /\ topPosition.n < cache.bottoms[i] * topPosition.d}
  IN IF found = {} THEN Null
     ELSE (CHOOSE i \in found : \A j \in found : i <= j) - 1

getHeight(cache, topIndex) == cache.bottoms[topIndex + 1] - cache.tops[topIndex + 1]

\* ------------------------------------------------------ durations (core)
createDuration(ms) == ms

asRoughMs(dur) == dur

addDurations(d0, d1) == d0 + d1

multiplyDuration(dur, n) == dur * n

\* the whole number of times the denominator fits the numerator, or null
wholeDivideDurations(numerator, denominator) ==
  IF denominator # 0 /\ numerator % denominator = 0
  THEN numerator \div denominator
  ELSE Null

startOfDay(when) == when - (when % DayMs)

\* ------------------------------------------------------------- TimeCols
\* what a query hands back: a thrown error, or a pixel value n / d
Thrown == [thrown |-> TRUE, n |-> 0, d |-> 1]

Value(n, d) == [thrown |-> FALSE, n |-> n, d |-> d]

\* _processOptions whose fallback resets snapsPerSlot but not snapDuration
processOptionsKeepSnap(opts) ==
  LET slot == createDuration(opts.slotDuration)
      snap == IF opts.snapDuration # 0 THEN createDuration(opts.snapDuration) ELSE slot
      perSlot == wholeDivideDurations(slot, snap)
  IN IF perSlot = Null
     THEN [slotDuration |-> slot, snapDuration |-> snap, snapsPerSlot |-> 1]
     ELSE [slotDuration |-> slot, snapDuration |-> snap, snapsPerSlot |-> perSlot]

\* _processOptions(options), reached through the memoized processOptions
processOptions(opts) ==
  LET slot == createDuration(opts.slotDuration)
      snap == IF opts.snapDuration # 0 THEN createDuration(opts.snapDuration) ELSE slot
      perSlot == wholeDivideDurations(slot, snap)
  IN IF perSlot = Null
     THEN [slotDuration |-> slot, snapDuration |-> slot, snapsPerSlot |-> 1]
     ELSE [slotDuration |-> slot, snapDuration |-> snap, snapsPerSlot |-> perSlot]

\* computeTimeTop without the upper clamp of slatCoverage
computeTimeTopNoUpperClamp(duration) ==
  IF Unmeasured(slatPositions) THEN Thrown
  ELSE LET len == Len(slatEls.sizes)
           slotMs == asRoughMs(slotDuration)
           coverage == Max(0, duration - asRoughMs(props.minTime))
           slatIndex == Min(Floor(coverage, slotMs), len - 1)
           slatRemainder == coverage - slatIndex * slotMs
       IN Value(slatPositions.tops[slatIndex + 1] * slotMs
                  + getHeight(slatPositions, slatIndex) * slatRemainder, slotMs)

\* computeTimeTop measuring the remainder from the far end of the slat
computeTimeTopFlippedRemainder(duration) ==
  IF Unmeasured(slatPositions) THEN Thrown
  ELSE LET len == Len(slatEls.sizes)
           slotMs == asRoughMs(slotDuration)
           coverage == Min(len * slotMs, Max(0, duration - asRoughMs(props.minTime)))
           slatIndex == Min(Floor(coverage, slotMs), len - 1)
           slatRemainder == slotMs - (coverage - slatIndex * slotMs)
       IN Value(slatPositions.tops[slatIndex + 1] * slotMs
                  + getHeight(slatPositions, slatIndex) * slatRemainder, slotMs)

\* computeTimeTop reading an unmeasured cache as all zeros
computeTimeTopLenient(duration) ==
  IF Unmeasured(slatPositions) THEN Value(0, 1)
  ELSE LET len == Len(slatEls.sizes)
           slotMs == asRoughMs(slotDuration)
           coverage == Min(len * slotMs, Max(0, duration - asRoughMs(props.minTime)))
           slatIndex == Min(Floor(coverage, slotMs), len - 1)
           slatRemainder == coverage - slatIndex * slotMs
       IN Value(slatPositions.tops[slatIndex + 1] * slotMs
                  + getHeight(slatPositions, slatIndex) * slatRemainder, slotMs)

\* computeTimeTop(duration): the pixel offset of a time of day, as a fraction
\* over asRoughMs(slotDuration).  coverage and slatRemainder are the source's
\* slatCoverage and slatRemainder multiplied by asRoughMs(slotDuration).
computeTimeTop(duration) ==
  IF Unmeasured(slatPositions) THEN Thrown
  ELSE LET len == Len(slatEls.sizes)
           slotMs == asRoughMs(slotDuration)
           coverage == Min(len * slotMs, Max(0, duration - asRoughMs(props.minTime)))
           slatIndex == Min(Floor(coverage, slotMs), len - 1)
           slatRemainder == coverage - slatIndex * slotMs
       IN Value(slatPositions.tops[slatIndex + 1] * slotMs
                  + getHeight(slatPositions, slatIndex) * slatRemainder, slotMs)

\* computeDateTop(when, startOfDayDate); startOfDayDate = Null when it is omitted
computeDateTop(when, startOfDayDate) ==
  LET dayDate == IF startOfDayDate = Null THEN startOfDay(when) ELSE startOfDayDate
  IN computeTimeTop(createDuration(when - dayDate))

\* one segment of computeSegVerticals without the Math.max
segVerticalNoMin(seg) ==
  LET dayDate == props.cells[seg.col + 1]
      top == computeDateTop(seg.start, dayDate)
      endTop == computeDateTop(seg.end, dayDate)
  IN [col |-> seg.col, start |-> seg.start, end |-> seg.end,
      thrown |-> top.thrown \/ endTop.thrown,
      top |-> top.n, bottom |-> endTop.n, d |-> top.d]

\* the body of the loop of computeSegVerticals: seg.top and seg.bottom, both
\* as numerators over d
segVertical(seg) ==
  LET eventMinHeight == options.timeGridEventMinHeight
      dayDate == props.cells[seg.col + 1]
      top == computeDateTop(seg.start, dayDate)
      endTop == computeDateTop(seg.end, dayDate)
  IN [col |-> seg.col, start |-> seg.start, end |-> seg.end,
      thrown |-> top.thrown \/ endTop.thrown,
      top |-> top.n,
      bottom |-> Max(top.n + eventMinHeight * top.d, endTop.n),
      d |-> top.d]

\* computeSegVerticals(segs)
computeSegVerticals(segs) == [i \in 1..Len(segs) |-> segVertical(segs[i])]

NoHit == [kind |-> "none"]

HitThrown == [kind |-> "thrown"]

\* positionToHit that accepts a hit when either index was found
positionToHitEither(positionLeft, positionTop) ==
  IF Unmeasured(colPositions) \/ Unmeasured(slatPositions) THEN HitThrown
  ELSE LET colIndex == leftToIndex(colPositions, positionLeft)
           slatIndex == topToIndex(slatPositions, positionTop)
       IN IF colIndex # Null \/ slatIndex # Null
          THEN [kind |-> "hit", col |-> colIndex, start |-> 0, end |-> 0,
                left |-> 0, right |-> 0, top |-> 0, bottom |-> 0,
                slatHeight |-> 0, partialN |-> 0, partialD |-> 1, nan |-> TRUE]
          ELSE NoHit

\* positionToHit that forgets to scale the slat index by snapsPerSlot
positionToHitUnscaledSnap(positionLeft, positionTop) ==
  IF Unmeasured(colPositions) \/ Unmeasured(slatPositions) THEN HitThrown
  ELSE LET colIndex == leftToIndex(colPositions, positionLeft)
           slatIndex == topToIndex(slatPositions, positionTop)
       IN IF colIndex # Null /\ slatIndex # Null
          THEN LET slatTop == slatPositions.tops[slatIndex + 1]
                   slatHeight == getHeight(slatPositions, slatIndex)
                   partialN == positionTop.n - slatTop * positionTop.d
                   partialD == slatHeight * positionTop.d
                   isNaN == partialD = 0
                   localSnapIndex == IF isNaN THEN 0
                                     ELSE Floor(partialN * snapsPerSlot, partialD)
                   snapIndex == slatIndex + localSnapIndex
                   dayDate == props.cells[colIndex + 1]
                   time == addDurations(props.minTime,
                                        multiplyDuration(snapDuration, snapIndex))
                   start == dayDate + time
                   end == start + snapDuration
               IN [kind |-> "hit", col |-> colIndex,
                   start |-> IF isNaN THEN 0 ELSE start,
                   end |-> IF isNaN THEN 0 ELSE end,
                   left |-> colPositions.lefts[colIndex + 1],
                   right |-> colPositions.rights[colIndex + 1],
                   top |-> slatTop, bottom |-> slatTop + slatHeight,
                   slatHeight |-> slatHeight, partialN |-> partialN,
                   partialD |-> partialD, nan |-> isNaN]
          ELSE NoHit

\* positionToHit that measures partial from the grid's top, not the slat's
positionToHitFromGridTop(positionLeft, positionTop) ==
  IF Unmeasured(colPositions) \/ Unmeasured(slatPositions) THEN HitThrown
  ELSE LET colIndex == leftToIndex(colPositions, positionLeft)
           slatIndex == topToIndex(slatPositions, positionTop)
       IN IF colIndex # Null /\ slatIndex # Null
          THEN LET slatTop == slatPositions.tops[slatIndex + 1]
                   slatHeight == getHeight(slatPositions, slatIndex)
                   partialN == positionTop.n
                   partialD == slatHeight * positionTop.d
                   isNaN == partialD = 0
                   localSnapIndex == IF isNaN THEN 0
                                     ELSE Floor(partialN * snapsPerSlot, partialD)
                   snapIndex == slatIndex * snapsPerSlot + localSnapIndex
                   dayDate == props.cells[colIndex + 1]
                   time == addDurations(props.minTime,
                                        multiplyDuration(snapDuration, snapIndex))
                   start == dayDate + time
                   end == start + snapDuration
               IN [kind |-> "hit", col |-> colIndex,
                   start |-> IF isNaN THEN 0 ELSE start,
                   end |-> IF isNaN THEN 0 ELSE end,
                   left |-> colPositions.lefts[colIndex + 1],
                   right |-> colPositions.rights[colIndex + 1],
                   top |-> slatTop, bottom |-> slatTop + slatHeight,
                   slatHeight |-> slatHeight, partialN |-> partialN,
                   partialD |-> partialD, nan |-> isNaN]
          ELSE NoHit

\* positionToHit(positionLeft, positionTop); positionTop is a fraction n / d.
\* Besides what the source returns (col, the range start..end, relativeRect)
\* the record keeps the locals slatHeight and partial = partialN / partialD;
\* nan marks a division by a zero slatHeight, which leaves the dates invalid.
positionToHit(positionLeft, positionTop) ==
  IF Unmeasured(colPositions) \/ Unmeasured(slatPositions) THEN HitThrown
  ELSE LET colIndex == leftToIndex(colPositions, positionLeft)
           slatIndex == topToIndex(slatPositions, positionTop)
       IN IF colIndex # Null /\ slatIndex # Null
          THEN LET slatTop == slatPositions.tops[slatIndex + 1]
                   slatHeight == getHeight(slatPositions, slatIndex)
                   partialN == positionTop.n - slatTop * positionTop.d
                   partialD == slatHeight * positionTop.d
                   isNaN == partialD = 0
                   localSnapIndex == IF isNaN THEN 0
                                     ELSE Floor(partialN * snapsPerSlot, partialD)
                   snapIndex == slatIndex * snapsPerSlot + localSnapIndex
                   dayDate == props.cells[colIndex + 1]
                   time == addDurations(props.minTime,
                                        multiplyDuration(snapDuration, snapIndex))
                   start == dayDate + time
                   end == start + snapDuration
               IN [kind |-> "hit", col |-> colIndex,
                   start |-> IF isNaN THEN 0 ELSE start,
                   end |-> IF isNaN THEN 0 ELSE end,
                   left |-> colPositions.lefts[colIndex + 1],
                   right |-> colPositions.rights[colIndex + 1],
                   top |-> slatTop, bottom |-> slatTop + slatHeight,
                   slatHeight |-> slatHeight, partialN |-> partialN,
                   partialD |-> partialD, nan |-> isNaN]
          ELSE NoHit

\* ------------------------------------------------------------ lifecycle
\* subrenderMirror(...): non-null when an event drag, an event resize or a
\* selection mirror is showing (props.mirror)
subrenderMirror(p) == p.mirror

\* subrender(): the five entries of segRenderers; TRUE is a non-null renderer
subrender(p) == <<TRUE, TRUE, TRUE, TRUE, subrenderMirror(p)>>

Step(op, cache, renderer) == [op |-> op, cache |-> cache, renderer |-> renderer]

RECURSIVE RendererSteps(_, _, _)
RendererSteps(op, rends, k) ==
  IF k > Len(rends) THEN <<>>
  ELSE (IF rends[k] THEN <<Step(op, "", k)>> ELSE <<>>) \o RendererSteps(op, rends, k + 1)

\* handleSizing that sizes each renderer before the caches are rebuilt
sizingStepsBuildLast(allowSizing, rends) ==
  LET b == IF allowSizing THEN "build" ELSE "buildZeros"
  IN RendererSteps("computeSizes", rends, 1)
       \o <<Step(b, "slat", 0), Step(b, "col", 0)>>
       \o RendererSteps("assignSizes", rends, 1)
       \o <<Step("renderNowIndicator", "", 0)>>

\* the statements of handleSizing, in the order the source runs them
sizingSteps(allowSizing, rends) ==
  LET b == IF allowSizing THEN "build" ELSE "buildZeros"
  IN <<Step(b, "slat", 0), Step(b, "col", 0)>>
       \o RendererSteps("computeSizes", rends, 1)
       \o RendererSteps("assignSizes", rends, 1)
       \o <<Step("renderNowIndicator", "", 0)>>

\* one statement of handleSizing acting on the caches; every statement is
\* logged with the stamps of the caches as it finds them
ApplyStep(step, acc, sEls, cEls, pass) ==
  LET entry == [op |-> step.op, cache |-> step.cache, renderer |-> step.renderer,
                slatStamp |-> acc.slatPositions.stamp,
                colStamp |-> acc.colPositions.stamp]
      built(c, els) == IF step.op = "build" THEN build(c, els, pass)
                       ELSE buildZeros(c, els, pass)
  IN [slatPositions |-> IF step.op \in {"build", "buildZeros"} /\ step.cache = "slat"
                        THEN built(acc.slatPositions, sEls) ELSE acc.slatPositions,
      colPositions |-> IF step.op \in {"build", "buildZeros"} /\ step.cache = "col"
                       THEN built(acc.colPositions, cEls) ELSE acc.colPositions,
      log |-> Append(acc.log, entry)]

RECURSIVE RunSteps(_, _, _, _, _, _)
RunSteps(steps, k, acc, sEls, cEls, pass) ==
  IF k > Len(steps) THEN acc
  ELSE RunSteps(steps, k + 1, ApplyStep(steps[k], acc, sEls, cEls, pass), sEls, cEls, pass)

\* handleSizing(): one pass over the caches sPos and cPos of the elements
\* sEls and cEls, numbered pass
handleSizing(p, rends, sPos, cPos, sEls, cEls, pass) ==
  RunSteps(sizingSteps(p.allowSizing, rends), 1,
           [slatPositions |-> sPos, colPositions |-> cPos, log |-> <<>>],
           sEls, cEls, pass)

NoResult == [kind |-> "none"]

CellsOf(n) == [i \in 1..n |-> (i - 1) * DayMs]

RECURSIVE SeqsUpTo(_, _)
SeqsUpTo(S, n) ==
  IF n = 0 THEN {<<>>}
  ELSE SeqsUpTo(S, n - 1) \cup {Append(q, x) : q \in SeqsUpTo(S, n - 1), x \in S}

SeqsOf(S, n) == {q \in SeqsUpTo(S, n) : Len(q) = n}

\* the slat rows a render can produce: stacked from the top of their parent,
\* of unequal heights, some collapsed to nothing
SlatElsSet == {Els(0, q) : q \in SeqsOf({0, 1, MaxHeight}, MaxSlats)}

\* the day cells of a row, after the axis cell (one pixel wide) of that row
\* at most one of them collapsed to nothing
ColElsSet ==
  {Els(1, [i \in 1..MaxCols |-> IF i = z THEN 0 ELSE MaxWidth]) : z \in 0..MaxCols}

\* the few layouts the lifecycle runs through
LifeSlatEls == {Els(0, <<MaxHeight>>), Els(0, <<1>>)}

LifeColEls(n) == {Els(1, [i \in 1..n |-> MaxWidth])}

OptionSets ==
  [slotDuration : 1..MaxSlot, snapDuration : 0..(MaxSlot + 1),
   timeGridEventMinHeight : 0..MaxMinHeight]

LifeOptions ==
  [slotDuration : {MaxSlot}, snapDuration : {0, 1}, timeGridEventMinHeight : {0}]

LifeProps ==
  [allowSizing : BOOLEAN, minTime : {MaxMinTime}, cells : {CellsOf(1)}, mirror : BOOLEAN]

\* the component as constructed: nothing rendered, no refs received
Constructed ==
  /\ props \in LifeProps
  /\ slotDuration = 0 /\ snapDuration = 0 /\ snapsPerSlot = 0
  /\ colEls = NoEls /\ slatEls = NoEls
  /\ colPositions = NoCache /\ slatPositions = NoCache
  /\ segRenderers = <<>>
  /\ phase = "constructed"
  /\ resizeHandler = FALSE
  /\ passes = 0 /\ events = 0 /\ passLog = <<>>
  /\ result = NoResult

Init == options \in LifeOptions /\ Constructed

\* render(): processOptions(context.options); an update may come with new props
Render ==
  /\ phase \in {"constructed", "mounted"}
  /\ events < MaxPasses
  /\ LET o == processOptions(options)
     IN /\ slotDuration' = o.slotDuration
        /\ snapDuration' = o.snapDuration
        /\ snapsPerSlot' = o.snapsPerSlot
  /\ IF phase = "constructed"
     THEN phase' = "rendering" /\ props' = props
     ELSE /\ phase' = "updating"
          /\ \E a \in BOOLEAN : props' = [props EXCEPT !.allowSizing = a]
  /\ result' = NoResult
  /\ UNCHANGED <<options, colEls, slatEls, colPositions, slatPositions, segRenderers,
                 resizeHandler, passes, events, passLog>>

\* handleBgCellEls(colEls) with non-null colEls
handleBgCellEls ==
  /\ phase \in {"rendering", "updating"}
  /\ colPositions.st # "new"
  /\ \E els \in LifeColEls(Len(props.cells)) :
       /\ colEls' = els
       /\ colPositions' = PositionCache(els, TRUE, FALSE)
  /\ result' = NoResult
  /\ UNCHANGED <<options, props, slotDuration, snapDuration, snapsPerSlot, slatEls,
                 slatPositions, segRenderers, phase, resizeHandler, passes, events,
                 passLog>>

\* handleSlatEls(slatEls) with non-null slatEls
handleSlatEls ==
  /\ phase \in {"rendering", "updating"}
  /\ slatPositions.st # "new"
  /\ \E els \in LifeSlatEls :
       /\ slatEls' = els
       /\ slatPositions' = PositionCache(els, FALSE, TRUE)
  /\ result' = NoResult
  /\ UNCHANGED <<options, props, slotDuration, snapDuration, snapsPerSlot, colEls,
                 colPositions, segRenderers, phase, resizeHandler, passes, events,
                 passLog>>

\* componentDidMount(): subrender, handleSizing, addResizeHandler
componentDidMount ==
  /\ phase = "rendering"
  /\ colPositions.st = "new" /\ slatPositions.st = "new"
  /\ LET rends == subrender(props)
         after == handleSizing(props, rends, slatPositions, colPositions,
                               slatEls, colEls, passes + 1)
     IN /\ segRenderers' = rends
        /\ slatPositions' = after.slatPositions
        /\ colPositions' = after.colPositions
        /\ passLog' = after.log
  /\ passes' = passes + 1
  /\ events' = events + 1
  /\ resizeHandler' = TRUE
  /\ phase' = "mounted"
  /\ result' = NoResult
  /\ UNCHANGED <<options, props, slotDuration, snapDuration, snapsPerSlot, colEls, slatEls>>

\* componentDidUpdate(): subrender, handleSizing
componentDidUpdate ==
  /\ phase = "updating"
  /\ LET rends == subrender(props)
         after == handleSizing(props, rends, slatPositions, colPositions,
                               slatEls, colEls, passes + 1)
     IN /\ segRenderers' = rends
        /\ slatPositions' = after.slatPositions
        /\ colPositions' = after.colPositions
        /\ passLog' = after.log
  /\ passes' = passes + 1
  /\ events' = events + 1
  /\ phase' = "mounted"
  /\ result' = NoResult
  /\ UNCHANGED <<options, props, slotDuration, snapDuration, snapsPerSlot, colEls, slatEls,
                 resizeHandler>>

\* componentWillUnmount(): removeResizeHandler(this.handleSizing)
componentWillUnmount ==
  /\ phase = "mounted"
  /\ phase' = "unmounted"
  /\ resizeHandler' = FALSE
  /\ result' = NoResult
  /\ UNCHANGED <<options, props, slotDuration, snapDuration, snapsPerSlot, colEls, slatEls,
                 colPositions, slatPositions, segRenderers, passes, events, passLog>>

\* a resize notification: the same elements are laid out anew, and the context
\* calls the handlers registered with it
Resize ==
  /\ phase \in {"mounted", "unmounted"}
  /\ passes < MaxPasses /\ events < MaxPasses
  /\ \E sEls \in {e \in LifeSlatEls : Len(e.sizes) = Len(slatEls.sizes)},
        cEls \in LifeColEls(Len(props.cells)) :
       /\ slatEls' = sEls
       /\ colEls' = cEls
       /\ IF resizeHandler
          THEN LET after == handleSizing(props, segRenderers, slatPositions, colPositions,
                                         sEls, cEls, passes + 1)
               IN /\ slatPositions' = after.slatPositions
                  /\ colPositions' = after.colPositions
                  /\ passLog' = after.log
                  /\ passes' = passes + 1
          ELSE UNCHANGED <<slatPositions, colPositions, passLog, passes>>
  /\ events' = IF phase = "mounted" THEN events + 1 ELSE events
  /\ result' = NoResult
  /\ UNCHANGED <<options, props, slotDuration, snapDuration, snapsPerSlot, segRenderers,
                 phase, resizeHandler>>

\* ---------------------------------------------------------------- queries
Frac(n, d) == [n |-> n, d |-> d]

\* times of day around the visible window, one step before and after it
Durations ==
  (props.minTime - 1)..(props.minTime + Len(slatEls.sizes) * slotDuration + 1)

\* pixel positions over the laid-out columns and slats, one step beyond them
Xs == 0..(colEls.lead + SumTo(colEls.sizes, Len(colEls.sizes)) + 1)

Ys == 0..(slatEls.lead + SumTo(slatEls.sizes, Len(slatEls.sizes)) + 1)

\* how far a segment's end lies after its start
SegSpans == {0 - 1, 0, 1, 2, slotDuration + 1}

Segs ==
  {[col |-> c, start |-> props.cells[c + 1] + t, end |-> props.cells[c + 1] + t + span] :
     c \in 0..(Len(props.cells) - 1), t \in Durations, span \in SegSpans}

\* a query changes nothing but the result it hands back; one result is held
\* at a time
Unqueried ==
  UNCHANGED <<options, props, slotDuration, snapDuration, snapsPerSlot, colEls, slatEls,
              colPositions, slatPositions, segRenderers, phase, resizeHandler, passes,
              events, passLog>>

\* a caller asks computeTimeTop(duration)
QueryTimeTop ==
  /\ result = NoResult
  /\ \E duration \in Durations :
       result' = [kind |-> "timeTop", duration |-> duration, out |-> computeTimeTop(duration)]
  /\ Unqueried

\* a caller asks computeDateTop(when), leaving the start of day to be derived
QueryDateTop ==
  /\ result = NoResult
  /\ \E c \in 1..Len(props.cells), t \in Durations :
       result' = [kind |-> "dateTop", when |-> props.cells[c] + t,
                  out |-> computeDateTop(props.cells[c] + t, Null)]
  /\ Unqueried

\* a caller asks positionToHit(x, y)
QueryHit ==
  /\ result = NoResult
  /\ \E x \in Xs, y \in Ys :
       result' = [kind |-> "hit", x |-> x, y |-> Frac(y, 1), out |-> positionToHit(x, Frac(y, 1))]
  /\ Unqueried

\* a segment renderer asks computeSegVerticals(segs)
QuerySegVerticals ==
  /\ result = NoResult
  /\ \E seg \in Segs :
       result' = [kind |-> "segs", segs |-> computeSegVerticals(<<seg>>)]
  /\ Unqueried

\* computeSegVerticals on one segment, then positionToHit at a pixel of the
\* segment's column and the pixel midway between seg.top and seg.bottom
QueryRoundTrip ==
  /\ result = NoResult
  /\ ~Unmeasured(colPositions) /\ ~Unmeasured(slatPositions)
  /\ \E seg \in Segs :
       LET sized == computeSegVerticals(<<seg>>)[1]
           mid == Frac(sized.top + sized.bottom, 2 * sized.d)
       IN \E x \in {p \in Xs : leftToIndex(colPositions, p) = seg.col} :
            result' = [kind |-> "roundTrip", seg |-> sized, x |-> x, y |-> mid,
                       out |-> positionToHit(x, mid)]
  /\ Unqueried

Next ==
  \/ Render
  \/ handleBgCellEls
  \/ handleSlatEls
  \/ componentDidMount
  \/ componentDidUpdate
  \/ componentWillUnmount
  \/ Resize
  \/ QueryTimeTop
  \/ QueryDateTop
  \/ QueryHit

Spec == Init /\ [][Next]_vars

\* ------------------------------------------- the mounted grid, queried
CoordOptions ==
  [slotDuration : {2, MaxSlot}, snapDuration : {0, 1},
   timeGridEventMinHeight : {0, MaxMinHeight}]

CoordProps ==
  [allowSizing : BOOLEAN, minTime : {MaxMinTime}, cells : {CellsOf(MaxCols)},
   mirror : {FALSE}]

\* the component after render, the ref callbacks and componentDidMount
InitCoords ==
  /\ options \in CoordOptions
  /\ props \in CoordProps
  /\ slatEls \in SlatElsSet
  /\ colEls \in ColElsSet
  /\ props.allowSizing \/ (slatEls = Els(0, [i \in 1..MaxSlats |-> 1])
                            /\ colEls \in LifeColEls(MaxCols))
  /\ LET o == processOptions(options)
     IN /\ slotDuration = o.slotDuration
        /\ snapDuration = o.snapDuration
        /\ snapsPerSlot = o.snapsPerSlot
  /\ segRenderers = subrender(props)
  /\ LET after == handleSizing(props, segRenderers,
                               PositionCache(slatEls, FALSE, TRUE),
                               PositionCache(colEls, TRUE, FALSE),
                               slatEls, colEls, 1)
     IN /\ slatPositions = after.slatPositions
        /\ colPositions = after.colPositions
        /\ passLog = after.log
  /\ phase = "mounted"
  /\ resizeHandler = TRUE
  /\ passes = 1 /\ events = 1
  /\ result = NoResult

NextCoords ==
  \/ QueryTimeTop
  \/ QueryHit
  \/ QuerySegVerticals
  \/ QueryRoundTrip

SpecCoords == InitCoords /\ [][NextCoords]_vars

\* ------------------------------- the lifecycle under every configuration
InitOptions == options \in OptionSets /\ Constructed

NextOptions ==
  \/ Render
  \/ handleBgCellEls
  \/ handleSlatEls
  \/ componentDidMount
  \/ componentDidUpdate
  \/ componentWillUnmount
  \/ Resize

SpecOptions == InitOptions /\ [][NextOptions]_vars

\* ------------------------------------------------------------ properties
SlatCount == Len(slatEls.sizes)

\* the bottom edge of the last slat
TotalExtent == slatPositions.bottoms[SlatCount]

WindowEnd == props.minTime + SlatCount * slotDuration

InWindow(t) == t >= props.minTime /\ t <= WindowEnd

\* C1: computeTimeTop(d) is never negative and never beyond the bottom of the
\* last slat; a duration before minTime maps to pixel 0, and one at or past
\* minTime + slatCount * slotDuration maps to the bottom edge of the last slat.
C1_TimeTopWithinExtent ==
  result.kind = "timeTop" =>
    LET out == result.out
    IN /\ ~out.thrown
       /\ out.n >= 0
       /\ out.n <= TotalExtent * out.d
       /\ (result.duration < props.minTime => out.n = 0)
       /\ (result.duration >= WindowEnd => out.n = TotalExtent * out.d)

C1_Witness ==
  /\ result.kind = "timeTop"
  /\ result.duration > WindowEnd
  /\ TotalExtent > 0
  /\ result.out.n = TotalExtent * result.out.d

\* the position lies in the i-th column interval / slat interval of the caches
InCol(x, i) == x >= colPositions.lefts[i] /\ x < colPositions.rights[i]

InSlat(y, i) ==
  y.n >= slatPositions.tops[i] * y.d /\ y.n < slatPositions.bottoms[i] * y.d

\* C2: positionToHit returns no hit whenever x lies in no column interval or y
\* in no slat interval, and a hit carrying the column that holds x whenever
\* both lie in one; a partial hit is never returned.
C2_HitOnlyWhenBothFound ==
  result.kind = "hit" =>
    LET colFound == \E i \in 1..Len(colPositions.lefts) : InCol(result.x, i)
        slatFound == \E i \in 1..Len(slatPositions.tops) : InSlat(result.y, i)
    IN /\ result.out.kind # "thrown"
       /\ (~colFound \/ ~slatFound) => result.out.kind = "none"
       /\ (colFound /\ slatFound) =>
            /\ result.out.kind = "hit"
            /\ result.out.col \in 0..(Len(colPositions.lefts) - 1)
            /\ InCol(result.x, result.out.col + 1)

C2_Witness ==
  /\ result.kind = "hit"
  /\ \E i \in 1..Len(colPositions.lefts) : InCol(result.x, i)
  /\ ~\E i \in 1..Len(slatPositions.tops) : InSlat(result.y, i)
  /\ result.out.kind = "none"

\* C3: a hit on column c and slat s carries the reference result: with
\* localSnap = floor(((y - offset[s]) / extent[s]) * snapsPerSlot), start =
\* dayStart(c) + minTime + snapDuration * (s * snapsPerSlot + localSnap), end =
\* start + snapDuration, and the rect is left/right of column c and top/bottom
\* of the whole slat s.
C3_HitMatchesReference ==
  result.kind \in {"hit", "roundTrip"} /\ result.out.kind = "hit" =>
    LET hit == result.out
        y == result.y
        c == CHOOSE i \in 1..Len(colPositions.lefts) : InCol(result.x, i)
        s == CHOOSE i \in 1..Len(slatPositions.tops) : InSlat(y, i)
        offset == slatPositions.tops[s]
        extent == slatPositions.bottoms[s] - offset
        localSnap == CHOOSE k \in 0..(snapsPerSlot - 1) :
                       /\ k * extent * y.d <= (y.n - offset * y.d) * snapsPerSlot
                       /\ (y.n - offset * y.d) * snapsPerSlot < (k + 1) * extent * y.d
        start == props.cells[c] + props.minTime
                   + snapDuration * ((s - 1) * snapsPerSlot + localSnap)
    IN /\ hit.col = c - 1
       /\ hit.start = start
       /\ hit.end = start + snapDuration
       /\ hit.left = colPositions.lefts[c] /\ hit.right = colPositions.rights[c]
       /\ hit.top = offset /\ hit.bottom = offset + extent

C3_Witness ==
  /\ result.kind = "hit" /\ result.out.kind = "hit"
  /\ snapsPerSlot >= 2
  /\ result.out.top > 0
  /\ result.out.start = props.cells[result.out.col + 1] + props.minTime
                          + snapDuration * (snapsPerSlot + 1)
  /\ result.out.bottom - result.out.top > 1

\* C4: after _processOptions, snapsPerSlot is an integer >= 1 and snapDuration
\* * snapsPerSlot = slotDuration; a configured snapDuration that is absent or
\* does not evenly divide slotDuration gives snapDuration = slotDuration and
\* snapsPerSlot = 1.
C4_SnapsDivideSlot ==
  phase # "constructed" =>
    /\ snapsPerSlot \in Nat /\ snapsPerSlot >= 1
    /\ slotDuration = options.slotDuration
    /\ snapDuration * snapsPerSlot = slotDuration
    /\ (options.snapDuration = 0 \/ options.slotDuration % options.snapDuration # 0)
         => snapDuration = slotDuration /\ snapsPerSlot = 1

C4_Witness ==
  /\ phase # "constructed"
  /\ options.slotDuration = 3 /\ options.snapDuration = 2
  /\ snapDuration = 3 /\ snapsPerSlot = 1

\* C5: computeSegVerticals gives every segment top = computeDateTop(start,
\* dayStart of its column) and bottom = max(top + minEventHeight,
\* computeDateTop(end, dayStart)), so bottom >= top + minEventHeight always.
C5_SegBottomAtLeastMinHeight ==
  result.kind = "segs" =>
    \A i \in 1..Len(result.segs) :
      LET seg == result.segs[i]
          dayStart == props.cells[seg.col + 1]
          top == computeTimeTop(seg.start - dayStart)
          endTop == computeTimeTop(seg.end - dayStart)
          minHeight == options.timeGridEventMinHeight * seg.d
      IN /\ ~seg.thrown
         /\ seg.top * top.d = top.n * seg.d
         /\ \/ seg.bottom = seg.top + minHeight /\ endTop.n * seg.d <= seg.bottom * endTop.d
            \/ seg.bottom * endTop.d = endTop.n * seg.d /\ seg.top + minHeight <= seg.bottom
         /\ seg.bottom >= seg.top + minHeight

C5_Witness ==
  /\ result.kind = "segs"
  /\ options.timeGridEventMinHeight > 0
  /\ result.segs[1].end < result.segs[1].start
  /\ result.segs[1].top > 0
  /\ result.segs[1].bottom = result.segs[1].top + options.timeGridEventMinHeight * result.segs[1].d

\* C6: for durations d1 <= d2 within [minTime, minTime + totalSlatSpan],
\* computeTimeTop(d1) <= computeTimeTop(d2), slats of unequal height included.
C6_TimeTopMonotone ==
  result.kind = "timeTop" /\ InWindow(result.duration) =>
    \A d1 \in Durations :
      InWindow(d1) /\ d1 <= result.duration =>
        LET lower == computeTimeTop(d1)
        IN lower.n * result.out.d <= result.out.n * lower.d

C6_Witness ==
  /\ result.kind = "timeTop" /\ InWindow(result.duration)
  /\ \E i, j \in 1..SlatCount :
       slatEls.sizes[i] > 0 /\ slatEls.sizes[j] > slatEls.sizes[i]
  /\ props.allowSizing
  /\ \E d1 \in Durations :
       /\ InWindow(d1) /\ d1 < result.duration
       /\ computeTimeTop(d1).n < result.out.n
       /\ computeTimeTop(d1).n > 0

SegInWindow(seg) ==
  /\ InWindow(seg.start - props.cells[seg.col + 1])
  /\ InWindow(seg.end - props.cells[seg.col + 1])

\* the hit's time range [start, end) shares a moment with the segment's
Overlaps(hit, seg) == hit.start < seg.end /\ seg.start < hit.end

\* C7 as stated: for every segment with start and end inside the visible
\* window, computeSegVerticals followed by positionToHit at the segment's
\* column and the midpoint pixel returns a hit overlapping [start, end).
C7_RoundTripAsStated ==
  result.kind = "roundTrip" /\ SegInWindow(result.seg) =>
    /\ result.out.kind = "hit"
    /\ Overlaps(result.out, result.seg)

\* C7 amended: the round trip returns an overlapping hit for every segment
\* inside the visible window that has start < end, when every slat has a
\* positive height and the segment's bottom is computeDateTop(end), not the
\* larger top + minEventHeight.
C7_RoundTripAmended ==
  /\ result.kind = "roundTrip" /\ SegInWindow(result.seg)
  /\ result.seg.start < result.seg.end
  /\ \A i \in 1..SlatCount : getHeight(slatPositions, i - 1) > 0
  /\ result.seg.bottom
       = computeDateTop(result.seg.end, props.cells[result.seg.col + 1]).n
  => /\ result.out.kind = "hit"
     /\ result.out.col = result.seg.col
     /\ Overlaps(result.out, result.seg)

C7_Witness ==
  /\ result.kind = "roundTrip" /\ SegInWindow(result.seg)
  /\ result.seg.start < result.seg.end
  /\ \A i \in 1..SlatCount : getHeight(slatPositions, i - 1) > 0
  /\ getHeight(slatPositions, 0) # getHeight(slatPositions, 1)
  /\ options.timeGridEventMinHeight > 0
  /\ result.seg.bottom
       = computeDateTop(result.seg.end, props.cells[result.seg.col + 1]).n
  /\ result.out.kind = "hit"
  /\ result.out.start > result.seg.start

\* C8: positionToHit never divides by a zero slat height: a zero-extent slat
\* is never the matched slat, so slatHeight > 0 and partial lies in [0, 1).
C8_NoZeroHeightMatch ==
  result.kind \in {"hit", "roundTrip"} /\ result.out.kind = "hit" =>
    /\ ~result.out.nan
    /\ result.out.slatHeight > 0
    /\ result.out.partialN >= 0
    /\ result.out.partialN < result.out.partialD

C8_Witness ==
  /\ result.kind = "hit" /\ result.out.kind = "hit"
  /\ \E i \in 1..SlatCount :
       /\ slatPositions.tops[i] = slatPositions.bottoms[i]
       /\ result.y.n = slatPositions.tops[i]
  /\ result.out.partialN = 0

StepRank(op) ==
  CASE op \in {"build", "buildZeros"} -> 0
    [] op = "computeSizes" -> 1
    [] op = "assignSizes" -> 2
    [] op = "renderNowIndicator" -> 3

NonNull == {r \in 1..Len(segRenderers) : segRenderers[r]}

LogOf(op) == {i \in 1..Len(passLog) : passLog[i].op = op}

\* C10: every mount, update and resize notification runs exactly one
\* handleSizing pass: both caches are rebuilt (build when allowSizing,
\* buildZeros otherwise), then computeSizes runs on every non-null renderer,
\* only then assignSizes, and the now indicator last, each reading caches
\* rebuilt in that pass; no pass runs after unmount.
C10_SizingPassOrder ==
  /\ passes = events
  /\ phase \in {"constructed", "rendering"} => passes = 0
  /\ phase \in {"mounted", "unmounted"} =>
       LET builds == LogOf(IF props.allowSizing THEN "build" ELSE "buildZeros")
       IN /\ \A i, j \in 1..Len(passLog) :
               i < j => StepRank(passLog[i].op) <= StepRank(passLog[j].op)
          /\ {passLog[i].cache : i \in builds} = {"slat", "col"}
          /\ Cardinality(builds) = 2
          /\ LogOf(IF props.allowSizing THEN "buildZeros" ELSE "build") = {}
          /\ {passLog[i].renderer : i \in LogOf("computeSizes")} = NonNull
          /\ Cardinality(LogOf("computeSizes")) = Cardinality(NonNull)
          /\ {passLog[i].renderer : i \in LogOf("assignSizes")} = NonNull
          /\ Cardinality(LogOf("assignSizes")) = Cardinality(NonNull)
          /\ LogOf("renderNowIndicator") = {Len(passLog)}
          /\ \A i \in 1..Len(passLog) :
               StepRank(passLog[i].op) > 0 =>
                 passLog[i].slatStamp = passes /\ passLog[i].colStamp = passes
          /\ slatPositions.stamp = passes /\ colPositions.stamp = passes

C10_Witness ==
  /\ phase = "unmounted"
  /\ passes >= 2
  /\ ~segRenderers[5]
  /\ passLog[1].op = "buildZeros"
  /\ slatEls.sizes # <<0>>
  /\ slatPositions.bottoms = <<0>>
====
